---- MODULE Spec2Model ----
(***************************************************************************)
(* MPT circuit: the storage leaf gadget (storage_leaf.rs), the modified    *)
(* extension gadget (mod_extension.rs) and the key / parent memory         *)
(* channels threaded between the nodes of one proof path.                  *)
(*                                                                         *)
(* configure() builds constraints over cells; here a constraint is         *)
(* evaluated over the concrete cell values of one witness, and the         *)
(* witness is accepted when no active constraint fails.  assign() is the   *)
(* witness generation that fills the cells from the witness rows and the   *)
(* running ProofValues.                                                    *)
(***************************************************************************)
EXTENDS Integers, Sequences, FiniteSets, TLC

VARIABLES pc, nodes, memory, pv, pv_memory, rows, region, cs, ops, mod_ext

vars == <<pc, nodes, memory, pv, pv_memory, rows, region, cs, ops, mod_ext>>

(***************************************************************************)
(* Field arithmetic.  The circuit works in a prime field; a small prime    *)
(* above 255 stands for it, so that a byte is a field element and sums of  *)
(* nibble counts do not wrap.                                              *)
(***************************************************************************)
FieldModulus == 2^8 + 1

F(x) == x % FieldModulus

\* ctx.r / ctx.randomness: the RLC challenge.
Randomness == 3

RECURSIVE Pow(_, _)
Pow(b, n) == IF n = 0 THEN 1 ELSE F(b * Pow(b, n - 1))

\* bytes.rlc(&r): sum of bytes[i] * r^i.
RECURSIVE RlcFrom(_, _)
RlcFrom(bytes, i) ==
    IF i > Len(bytes) THEN 0
    ELSE F(bytes[i] + Randomness * RlcFrom(bytes, i + 1))

Rlc(bytes) == RlcFrom(bytes, 1)

\* rlc2 / rlc_chain_data: the RLC with the first byte at the highest power.
RECURSIVE RlcRevUpTo(_, _)
RlcRevUpTo(bytes, n) ==
    IF n = 0 THEN 0
    ELSE F(RlcRevUpTo(bytes, n - 1) * Randomness + bytes[n])

RlcRev(bytes) == RlcRevUpTo(bytes, Len(bytes))

\* rlc.rlc_chain_rev((other_rlc, other_mult)) == rlc * other_mult + other_rlc
rlc_chain_rev(rlc, other_rlc, other_mult) == F(rlc * other_mult + other_rlc)

\* (rlc, mult).rlc_chain(other) == rlc + mult * other
RlcChain(rlc, mult, other) == F(rlc + mult * other)

\* FixedTableTag::RMult lookup: (n, r^n).
RMult(n) == Pow(Randomness, n)

KEY_LEN_IN_NIBBLES == 64

HASH_WIDTH == 32

\* bool::idx(): the two lineages, S (is_s = TRUE) and C (is_s = FALSE).
Lineages == {TRUE, FALSE}

(***************************************************************************)
(* Memory channels (MemoryBank).  A bank keeps every stored value; a load  *)
(* at address a reads the value a stores before the most recent one.       *)
(***************************************************************************)
key_memory(is_s) == IF is_s THEN "key_s" ELSE "key_c"

parent_memory(is_s) == IF is_s THEN "parent_s" ELSE "parent_c"

Channels == {"key_s", "key_c", "parent_s", "parent_c"}

MemoryLoad(bank, addr) == bank[Len(bank) - addr]

MemoryStore(bank, values) == Append(bank, values)

\* KeyData::default_values()
KeyDataDefault ==
    [rlc |-> 0, mult |-> 1, num_nibbles |-> 0, is_odd |-> FALSE,
     is_placeholder_leaf_s |-> FALSE, is_placeholder_leaf_c |-> FALSE,
     placeholder_nibble |-> 0, placeholder_is_odd |-> FALSE,
     parent_rlc |-> 0, parent_mult |-> 1]

\* The ParentData a channel holds at path start.
ParentDataDefault ==
    [rlc |-> 0, is_root |-> TRUE, is_placeholder |-> FALSE, placeholder_rlc |-> 0]

ChannelDefault(ch) ==
    IF ch \in {"key_s", "key_c"} THEN KeyDataDefault ELSE ParentDataDefault

(***************************************************************************)
(* RLP rows.  A key row is the list header and the key string of a leaf;   *)
(* a value row is the value string.  key is the hex-prefix encoded key:    *)
(* 32 then whole bytes (even), or 48 + nibble then whole bytes (odd).      *)
(***************************************************************************)
RlpString(s) ==
    IF Len(s) = 1 /\ s[1] < 128 THEN s ELSE <<128 + Len(s)>> \o s

RlpListHeader(len) == IF len < 56 THEN <<192 + len>> ELSE <<248, len>>

\* The bytes of a value row: RLPValueGadget
ValueRlpBytes(vrow) == RlpString(vrow.val)

ValueNumBytes(vrow) == Len(ValueRlpBytes(vrow))

ValueNumRlpBytes(vrow) == ValueNumBytes(vrow) - Len(vrow.val)

\* RLPValueGadget::rlc: (value_rlc, value_rlp_rlc)
value_rlc_of(vrow) == Rlc(vrow.val)

value_rlp_rlc_of(vrow) == Rlc(ValueRlpBytes(vrow))

\* The bytes on a key row: LeafKeyGadget
KeyRowBytes(krow) == RlpListHeader(krow.list_len) \o RlpString(krow.key)

num_bytes_on_key_row(krow) == Len(KeyRowBytes(krow))

num_bytes(krow) == Len(RlpListHeader(krow.list_len)) + krow.list_len

key_len(krow) == Len(krow.key)

key_row_rlc(krow) == Rlc(KeyRowBytes(krow))

\* LeafKeyGadget::num_key_nibbles(is_key_odd)
num_key_nibbles(krow, is_key_odd) ==
    IF is_key_odd THEN key_len(krow) * 2 - 1 ELSE (key_len(krow) - 1) * 2

\* LeafKeyGadget::leaf_key_rlc(key_mult_prev, is_key_odd, key_mult_first_even):
\* the odd nibble of the first byte goes below the nibble already in the
\* accumulator; an even key starts a fresh byte.
leaf_key_rlc(krow, key_mult_prev, is_key_odd, key_mult_first_even) ==
    LET first == IF is_key_odd THEN F((krow.key[1] - 48 + FieldModulus) * key_mult_prev)
                 ELSE 0
        mult  == IF is_key_odd THEN F(key_mult_prev * Randomness)
                 ELSE F(key_mult_prev * key_mult_first_even)
    IN  RlcChain(first, mult, Rlc(Tail(krow.key)))

\* The constraint leaf_key_rlc adds: an even key starts with the byte 32.
leaf_key_prefix_ok(krow, is_key_odd) == is_key_odd \/ krow.key[1] = 32

\* drifted_nibble_rlc(nibble, key_mult_prev, is_key_odd)
drifted_nibble_rlc(nibble, key_mult_prev, is_key_odd) ==
    F(nibble * key_mult_prev * (IF is_key_odd THEN 16 ELSE 1))

(***************************************************************************)
(* Lookup tables supplied from outside.                                    *)
(***************************************************************************)
\* The Keccak relation, as a function of the input fingerprint and length.
KeccakHash(input_rlc, input_len) == F(input_rlc * 31 + input_len * 7 + 11)

KeccakLookup(flag, input_rlc, input_len, output_rlc) ==
    flag = 1 /\ output_rlc = KeccakHash(input_rlc, input_len)

\* The RLC of the hash of the empty trie.
EmptyTrieRlc == KeccakHash(128, 1)

\* IsEmptyTreeGadget
IsEmptyTree(parent_rlc) == parent_rlc = EmptyTrieRlc

(***************************************************************************)
(* Witness rows the model draws from.  K2 holds the nibbles 2,3; K3 the    *)
(* nibbles 1,2,3; a 31 byte value makes a leaf of at least 32 bytes.       *)
(***************************************************************************)
K2 == <<32, 35>>

K3 == <<49, 35>>

V0 == <<0>>

Vs == <<5>>

Vl == [i \in 1 .. (HASH_WIDTH - 1) |-> 7]

\* A leaf's key row: the list length covers the key string and the value.
KeyRow(key, val) ==
    [key |-> key, list_len |-> Len(RlpString(key)) + Len(RlpString(val))]

ValueRow(val, storage_mod) == [val |-> val, storage_mod |-> storage_mod]

LeafKeys == {K2, K3}

ValuePairs == {<<Vl, Vl>>, <<Vs, Vl>>, <<V0, Vs>>, <<V0, V0>>, <<Vs, Vs>>}

\* The drifted leaf keeps the nibbles 2,3 of K3 (or, wrongly, 2,4).
DriftedRows == {KeyRow(K2, Vs), KeyRow(<<32, 36>>, Vs)}

\* The row of the wrong leaf: non_existing is the byte at
\* IS_NON_EXISTING_STORAGE_POS, present is bytes[0] != 0.
WrongRows ==
    {[non_existing |-> 0, present |-> FALSE, key |-> <<0>>],
     [non_existing |-> 1, present |-> FALSE, key |-> <<0>>],
     [non_existing |-> 1, present |-> TRUE, key |-> <<32, 36>>],
     [non_existing |-> 1, present |-> TRUE, key |-> K2],
     [non_existing |-> 1, present |-> TRUE, key |-> K3],
     [non_existing |-> 1, present |-> TRUE, key |-> <<32, 36, 1>>]}

\* leaf_rlc: the key row chained with the value row.
leaf_rlc_of(krow, vrow) ==
    RlcChain(key_row_rlc(krow), RMult(num_bytes_on_key_row(krow)),
             value_rlp_rlc_of(vrow))

\* The reference a parent holds to a leaf: its hash when the leaf has at
\* least 32 bytes, the leaf itself otherwise.
ChildRef(key, val) ==
    LET krow == KeyRow(key, val)
        rlc  == leaf_rlc_of(krow, [val |-> val])
    IN  IF num_bytes(krow) >= HASH_WIDTH THEN KeccakHash(rlc, num_bytes(krow))
        ELSE rlc

\* The hash a branch holds at drifted_index for the drifted leaf.
DriftedRef(val) ==
    LET krow == KeyRow(K2, val)
    IN  KeccakHash(leaf_rlc_of(krow, [val |-> val]), num_bytes(krow))

(***************************************************************************)
(* The rows of the node variants: the row-type enumerations (without       *)
(* Count, which is their length) and the RLP item kind expected at each    *)
(* row.  Row positions count from 0.                                       *)
(***************************************************************************)
StorageRowType ==
    <<"KeyS", "ValueS", "KeyC", "ValueC", "Drifted", "Wrong", "Address", "Key">>

AccountRowType ==
    <<"KeyS", "KeyC", "NonceS", "BalanceS", "StorageS", "CodehashS", "NonceC",
      "BalanceC", "StorageC", "CodehashC", "Drifted", "Wrong", "Address", "Key">>

ExtensionBranchRowType ==
    <<"Mod", "Child0", "Child1", "Child2", "Child3", "Child4", "Child5",
      "Child6", "Child7", "Child8", "Child9", "Child10", "Child11", "Child12",
      "Child13", "Child14", "Child15", "KeyS", "ValueS", "KeyC", "ValueC">>

StartRowType == <<"RootS", "RootC">>

NODE_RLP_TYPES_START == <<"Hash", "Hash">>

NODE_RLP_TYPES_BRANCH ==
    [i \in 1 .. 17 |-> "Node"] \o <<"Key", "Node", "Nibbles", "Node">>

NODE_RLP_TYPES_ACCOUNT ==
    <<"Key", "Key", "Value", "Value", "Hash", "Hash", "Value", "Value", "Hash",
      "Hash", "Key", "Key", "Address", "Hash">>

NODE_RLP_TYPES_STORAGE ==
    <<"Key", "Value", "Key", "Value", "Key", "Key", "Hash", "Hash">>

\* `Variant::Name as usize`: the position of a name in its enumeration, or
\* -1 for a name the enumeration does not have.
RowPosition(row_type, name) ==
    IF \E i \in DOMAIN row_type : row_type[i] = name
    THEN (CHOOSE i \in DOMAIN row_type : row_type[i] = name) - 1
    ELSE -1

\* storage leaf, configure and assign: the rows addressed by position and
\* what the gadget reads them as
StorageLeafRowRequests ==
    {[position |-> 0, kind |-> "Key"], [position |-> 2, kind |-> "Key"],
     [position |-> 1, kind |-> "Value"], [position |-> 3, kind |-> "Value"],
     [position |-> 4, kind |-> "Key"], [position |-> 5, kind |-> "Key"]}

\* modified extension node, configure: ctx.rlp_item(meta, cb,
\* StorageRowType::<name> as usize, RlpItemType::<kind>)
ModExtRowRequests ==
    {[name |-> "LongExtNodeKey", kind |-> "Key"],
     [name |-> "ShortExtNodeKey", kind |-> "Key"],
     [name |-> "LongExtNodeValue", kind |-> "Node"],
     [name |-> "ShortExtNodeValue", kind |-> "Node"]}

(***************************************************************************)
(* The rows of a modified extension node: the long and the short key item  *)
(* (lineage S and C) and the values they point to.                         *)
(***************************************************************************)
\* ListKeyGadget: the list of the key item and the node value
ExtListLen(m, is_s) == Len(RlpString(m.key[is_s])) + Len(RlpString(m.value[is_s]))

ExtNumBytes(m, is_s) ==
    Len(RlpListHeader(ExtListLen(m, is_s))) + ExtListLen(m, is_s)

\* configure: node_rlc, rlp_key[0] chained in reverse with the value of the
\* lineage
ExtNodeRlc(m, is_s) ==
    LET key_part == RlpListHeader(ExtListLen(m, TRUE)) \o RlpString(m.key[TRUE])
        value    == RlpString(m.value[is_s])
    IN  rlc_chain_rev(RlcRev(key_part), RlcRev(value), RMult(Len(value)))

ExtRows(key, value) ==
    [key |-> [is_s \in Lineages |-> key], value |-> [is_s \in Lineages |-> value]]

\* The reference a parent holds to an extension node: its hash when the
\* node has at least 32 bytes, the node itself otherwise.
ExtRef(key, value) ==
    LET m == ExtRows(key, value)
    IN  IF ExtNumBytes(m, TRUE) >= HASH_WIDTH
        THEN KeccakHash(ExtNodeRlc(m, TRUE), ExtNumBytes(m, TRUE))
        ELSE ExtNodeRlc(m, TRUE)

(***************************************************************************)
(* State.                                                                  *)
(*   memory     ctx.memory: the banks the constraints load from / store to *)
(*   pv_memory  pv.memory: the banks of witness generation                 *)
(*   pv         the running ProofValues                                    *)
(*   rows       the witness rows of the storage leaf                       *)
(*   region     the cells assign() wrote for the storage leaf              *)
(*   cs         the constraints of the storage leaf over one witness       *)
(*   ops        per side and channel, the loads and stores of the node     *)
(*              processed last                                             *)
(*   mod_ext    the cells and constraints of the modified extension node   *)
(***************************************************************************)
MaxNodes == 2

NoOps == [ch \in Channels |-> <<>>]

None == [kind |-> "none"]

PvDefault ==
    [key_rlc |-> 0, key_rlc_mult |-> 1, key_rlc_prev |-> 0, key_rlc_mult_prev |-> 1,
     is_branch_s_placeholder |-> FALSE, is_branch_c_placeholder |-> FALSE]

Init ==
    /\ pc = "path"
    /\ nodes = 0
    /\ memory = [ch \in Channels |-> <<ChannelDefault(ch)>>]
    /\ pv_memory = [ch \in Channels |-> <<ChannelDefault(ch)>>]
    /\ pv = PvDefault
    /\ rows = None
    /\ region = None
    /\ cs = None
    /\ ops = [cs |-> NoOps, wit |-> NoOps]
    /\ mod_ext = None

(***************************************************************************)
(* The nodes above the leaf (extension / branch).  Their gadget is not     *)
(* part of the modelled files; what matters here is what they leave in     *)
(* the channels and in pv: one load and one store per channel, the key     *)
(* accumulator advanced by the extension nibbles and the branch nibble,    *)
(* and for a placeholder branch the accumulator of before the branch.      *)
(***************************************************************************)
\* One more nibble in the key accumulator: a high nibble at an even count.
AddNibble(acc, nibble) ==
    IF acc.num_nibbles % 2 = 0
    THEN [rlc |-> F(acc.rlc + 16 * nibble * acc.mult), mult |-> acc.mult,
          num_nibbles |-> acc.num_nibbles + 1]
    ELSE [rlc |-> F(acc.rlc + nibble * acc.mult), mult |-> F(acc.mult * Randomness),
          num_nibbles |-> acc.num_nibbles + 1]

\* n zero nibbles: the RLC stays, the multiplier moves on by the bytes completed.
AddZeroNibbles(acc, n) ==
    [rlc |-> acc.rlc,
     mult |-> F(acc.mult * Pow(Randomness,
                  ((acc.num_nibbles + n) \div 2) - (acc.num_nibbles \div 2))),
     num_nibbles |-> acc.num_nibbles + n]

\* The nibbles of the extension above the branch of a node.
ExtNibbles(p) == p.ext

\* The reference a branch holds to the node below it when that is no leaf:
\* the hash of an extension node, or a short extension node itself.
BranchRef == ExtRef(<<0, 18>>, [i \in 1 .. HASH_WIDTH |-> 9])

InlineRef == ExtRef(<<0, 18>>, <<9>>)

ModifiedIndex == 2

DriftedIndex == 1

ChildPairs ==
    {<<ChildRef(K2, Vl), ChildRef(K2, Vl)>>,
     <<ChildRef(K2, Vs), ChildRef(K2, Vl)>>,
     <<EmptyTrieRlc, ChildRef(K2, Vs)>>,
     <<EmptyTrieRlc, EmptyTrieRlc>>,
     <<ChildRef(K3, Vs), ChildRef(K3, Vs)>>}

\* ph: the lineage whose branch is a placeholder; child: the references the
\* branch holds at modified_index, for S and for C; ext: the nibbles of the
\* extension.  The first node of a path is an extension over all but four
\* (or six) nibbles and no placeholder.
BranchParams(first) ==
    IF first
    THEN {[ph |-> "none", child |-> <<BranchRef, BranchRef>>,
           ext |-> KEY_LEN_IN_NIBBLES - 4],
          [ph |-> "none", child |-> <<InlineRef, InlineRef>>,
           ext |-> KEY_LEN_IN_NIBBLES - 4],
          [ph |-> "none", child |-> <<ChildRef(K3, Vs), ChildRef(K3, Vs)>>,
           ext |-> KEY_LEN_IN_NIBBLES - 4],
          [ph |-> "none", child |-> <<ChildRef(K3, Vs), ChildRef(K3, Vs)>>,
           ext |-> KEY_LEN_IN_NIBBLES - 6]}
    ELSE {[ph |-> "none", child |-> c, ext |-> 0] : c \in ChildPairs}
         \cup {[ph |-> "S", child |-> <<0, ChildRef(K2, Vl)>>, ext |-> 0],
               [ph |-> "C", child |-> <<ChildRef(K2, Vs), 0>>, ext |-> 0]}

BranchIsPlaceholder(p, is_s) == p.ph = (IF is_s THEN "S" ELSE "C")

BranchChild(p, is_s) == IF is_s THEN p.child[1] ELSE p.child[2]

BranchKeyData(p, pre, post, is_s) ==
    LET flags == [is_placeholder_leaf_s |-> IsEmptyTree(p.child[1]) /\ p.ph = "none",
                  is_placeholder_leaf_c |-> IsEmptyTree(p.child[2]) /\ p.ph = "none"]
    IN  IF BranchIsPlaceholder(p, is_s)
        THEN [rlc |-> pre.rlc, mult |-> pre.mult, num_nibbles |-> pre.num_nibbles,
              is_odd |-> pre.num_nibbles % 2 = 1,
              is_placeholder_leaf_s |-> flags.is_placeholder_leaf_s,
              is_placeholder_leaf_c |-> flags.is_placeholder_leaf_c,
              placeholder_nibble |-> DriftedIndex,
              placeholder_is_odd |-> post.num_nibbles % 2 = 1,
              parent_rlc |-> pre.rlc, parent_mult |-> pre.mult]
        ELSE [rlc |-> post.rlc, mult |-> post.mult, num_nibbles |-> post.num_nibbles,
              is_odd |-> post.num_nibbles % 2 = 1,
              is_placeholder_leaf_s |-> flags.is_placeholder_leaf_s,
              is_placeholder_leaf_c |-> flags.is_placeholder_leaf_c,
              placeholder_nibble |-> 0,
              placeholder_is_odd |-> FALSE,
              parent_rlc |-> pre.rlc, parent_mult |-> pre.mult]

BranchParentData(p, parent, is_s) ==
    IF BranchIsPlaceholder(p, is_s)
    THEN [rlc |-> parent.rlc, is_root |-> parent.is_root, is_placeholder |-> TRUE,
          placeholder_rlc |-> DriftedRef(Vs)]
    ELSE [rlc |-> BranchChild(p, is_s), is_root |-> FALSE, is_placeholder |-> FALSE,
          placeholder_rlc |-> 0]

BranchStores(mem, p) ==
    [ch \in Channels |->
        LET is_s == ch \in {"key_s", "parent_s"}
            pre  == MemoryLoad(mem[key_memory(is_s)], 0)
            post == AddNibble(AddZeroNibbles(pre, ExtNibbles(p)), ModifiedIndex)
        IN  IF ch \in {"key_s", "key_c"}
            THEN MemoryStore(mem[ch], BranchKeyData(p, pre, post, is_s))
            ELSE MemoryStore(mem[ch],
                     BranchParentData(p, MemoryLoad(mem[ch], 0), is_s))]

LoadThenStore == [ch \in Channels |-> <<<<"load", 0>>, <<"store">>>>]

ExtensionBranch(p) ==
    /\ pc = "path"
    /\ nodes < MaxNodes
    \* below a placeholder branch there are only leaves
    /\ ~(pv.is_branch_s_placeholder \/ pv.is_branch_c_placeholder)
    \* below a short extension node held in its parent there is no branch
    /\ MemoryLoad(memory["parent_s"], 0).rlc # InlineRef
    /\ LET \* pv follows the lineage that has the branch
           live == p.ph # "S"
           pre  == MemoryLoad(pv_memory[key_memory(live)], 0)
           post == AddNibble(AddZeroNibbles(pre, ExtNibbles(p)), ModifiedIndex)
       IN  /\ memory' = BranchStores(memory, p)
           /\ pv_memory' = BranchStores(pv_memory, p)
           /\ pv' = [key_rlc |-> post.rlc, key_rlc_mult |-> post.mult,
                     key_rlc_prev |-> pre.rlc, key_rlc_mult_prev |-> pre.mult,
                     is_branch_s_placeholder |-> p.ph = "S",
                     is_branch_c_placeholder |-> p.ph = "C"]
    /\ nodes' = nodes + 1
    /\ ops' = [cs |-> LoadThenStore, wit |-> LoadThenStore]
    /\ UNCHANGED <<pc, rows, region, cs, mod_ext>>

(***************************************************************************)
(* StorageLeafConfig::assign                                               *)
(***************************************************************************)
\* The rows besides the leaf itself: the storage modification flag of the
\* C value row, the drifted row and the wrong row.  A non-existence proof
\* modifies nothing.
AuxRows ==
    {[storage_mod |-> sm, drifted |-> d, wrong |-> w] :
        sm \in {0, 1}, d \in DriftedRows, w \in {x \in WrongRows : x.non_existing = 0}}
    \cup {[storage_mod |-> 0, drifted |-> KeyRow(K2, Vs), wrong |-> w] :
            w \in {x \in WrongRows : x.non_existing = 1}}

\* The witness of one storage leaf: rows offset .. offset + 5.
LeafWitnesses ==
    {[key |-> [is_s \in Lineages |->
                  IF is_s THEN KeyRow(ks, vp[1]) ELSE KeyRow(kc, vp[2])],
      value |-> [is_s \in Lineages |->
                  IF is_s THEN ValueRow(vp[1], 0) ELSE ValueRow(vp[2], aux.storage_mod)],
      drifted |-> aux.drifted,
      wrong |-> aux.wrong] :
        ks \in LeafKeys, kc \in LeafKeys, vp \in ValuePairs, aux \in AuxRows}

\* KeyData::witness_store(rlc, mult, num_nibbles, is_placeholder_leaf_s,
\* is_placeholder_leaf_c, placeholder_nibble, placeholder_is_odd, parent_rlc,
\* parent_mult): the parity is stored with the count.
KeyDataWitnessValues(rlc, mult, num_nibbles, is_placeholder_leaf_s, is_placeholder_leaf_c, placeholder_nibble, placeholder_is_odd, parent_rlc, parent_mult) ==
    [rlc |-> rlc, mult |-> mult, num_nibbles |-> num_nibbles,
     is_odd |-> num_nibbles % 2 = 1,
     is_placeholder_leaf_s |-> is_placeholder_leaf_s,
     is_placeholder_leaf_c |-> is_placeholder_leaf_c,
     placeholder_nibble |-> placeholder_nibble,
     placeholder_is_odd |-> placeholder_is_odd,
     parent_rlc |-> parent_rlc, parent_mult |-> parent_mult]

\* ParentData::witness_store(rlc, is_root, is_placeholder, placeholder_rlc)
ParentDataWitnessValues(rlc, is_root, is_placeholder, placeholder_rlc) ==
    [rlc |-> rlc, is_root |-> is_root, is_placeholder |-> is_placeholder,
     placeholder_rlc |-> placeholder_rlc]

\* assign: what the leaf stores to the key channel
AssignKeyStore(loaded) ==
    KeyDataWitnessValues(0, 1, 0, FALSE, FALSE, 0, FALSE, 0, 1)

\* assign: what the leaf stores to the parent channel
AssignParentStore(loaded) == ParentDataWitnessValues(0, TRUE, FALSE, 0)

\* assign: the loads and stores of the leaf on the witness banks
AssignMemory(mem) ==
    [ch \in Channels |->
        IF ch \in {"key_s", "key_c"}
        THEN MemoryStore(mem[ch], AssignKeyStore(MemoryLoad(mem[ch], 0)))
        ELSE MemoryStore(mem[ch], AssignParentStore(MemoryLoad(mem[ch], 0)))]

\* MptWitnessRow::get_type of the key row of a lineage
KeyRowType(is_s) == IF is_s THEN "StorageLeafSKey" ELSE "StorageLeafCKey"

\* assign: "For leaf S and leaf C we need to start with the same rlc."
\* Variant: the key RLC after the last branch used for both lineages.
AssignUsesPrev_Never(p, row_type) == FALSE

\* assign: the lineage below a placeholder branch starts from the key RLC
\* of before that branch
AssignUsesPrev(p, row_type) ==
    \/ p.is_branch_s_placeholder /\ row_type = "StorageLeafSKey"
    \/ p.is_branch_c_placeholder /\ row_type = "StorageLeafCKey"

AssignKeyStart(p, is_s) ==
    IF AssignUsesPrev(p, KeyRowType(is_s))
    THEN [rlc |-> p.key_rlc_prev, mult |-> p.key_rlc_mult_prev]
    ELSE [rlc |-> p.key_rlc, mult |-> p.key_rlc_mult]

\* LeafKeyWitness::leaf_key_rlc(key_rlc, key_mult, r): the parity is read
\* off the first key byte.
witness_leaf_key_rlc(krow, key_rlc, key_mult) ==
    IF key_len(krow) <= 1 /\ krow.key[1] < 48 THEN key_rlc
    ELSE F(key_rlc + leaf_key_rlc(krow, key_mult, krow.key[1] # 32, 1))

AssignKeyRlc(p, w, is_s) ==
    LET start == AssignKeyStart(p, is_s)
    IN  witness_leaf_key_rlc(w.key[is_s], start.rlc, start.mult)

\* assign: the drifted leaf is handled when either branch is a placeholder
AssignDrifted(p) == p.is_branch_s_placeholder \/ p.is_branch_c_placeholder

\* assign: row_bytes[0] = key_bytes[false.idx()].bytes[0]
AssignWrongRow(w) ==
    [key |-> w.wrong.key, list_len |-> w.key[FALSE].list_len]

AssignKeyRlcWrong(p, w) ==
    witness_leaf_key_rlc(AssignWrongRow(w), p.key_rlc, p.key_rlc_mult)

AssignNonExisting(w) == w.wrong.non_existing = 1

\* Variant: the storage modification flag read off the S value row.
AssignStorageMod_RowS(w) == w.value[TRUE].storage_mod = 1

\* assign: value_bytes[false.idx()].get_byte_rev(IS_STORAGE_MOD_POS) == 1
AssignStorageMod(w) == w.value[FALSE].storage_mod = 1

AssignRegion(p, mem, w) ==
    [kind |-> "leaf",
     key_mult |-> [is_s \in Lineages |-> RMult(num_bytes_on_key_row(w.key[is_s]))],
     is_not_hashed |-> [is_s \in Lineages |-> num_bytes(w.key[is_s]) < HASH_WIDTH],
     key_data |-> [is_s \in Lineages |-> MemoryLoad(mem[key_memory(is_s)], 0)],
     parent_data |-> [is_s \in Lineages |-> MemoryLoad(mem[parent_memory(is_s)], 0)],
     drifted_mult |-> IF AssignDrifted(p)
                      THEN RMult(num_bytes_on_key_row(w.drifted)) ELSE 0,
     key_data_w |-> IF AssignNonExisting(w)
                    THEN MemoryLoad(AssignMemory(mem)[key_memory(TRUE)], 1)
                    ELSE None,
     is_wrong_leaf |-> IF AssignNonExisting(w) /\ w.wrong.present THEN 1 ELSE 0,
     check_is_wrong_leaf |->
        IF AssignNonExisting(w)
        THEN F(AssignKeyRlcWrong(p, w) - AssignKeyRlc(p, w, FALSE) + FieldModulus)
        ELSE 0,
     key_rlc_wrong |-> IF AssignNonExisting(w) THEN AssignKeyRlcWrong(p, w) ELSE 0,
     proof_type_wrong |-> IF AssignNonExisting(w) THEN "StorageDoesNotExist" ELSE "none",
     proof_type |-> IF AssignStorageMod(w) THEN "StorageChanged" ELSE "none",
     key_rlc |-> AssignKeyRlc(p, w, FALSE),
     value_prev |-> value_rlc_of(w.value[TRUE]),
     value |-> value_rlc_of(w.value[FALSE])]

AssignOps(w) ==
    [ch \in Channels |->
        IF ch = "key_s" /\ AssignNonExisting(w)
        THEN <<<<"load", 0>>, <<"store">>, <<"load", 1>>>>
        ELSE <<<<"load", 0>>, <<"store">>>>]

StorageLeafAssign(w) ==
    /\ pc \in {"path", "mod_ext"}
    /\ rows' = w
    /\ region' = AssignRegion(pv, pv_memory, w)
    /\ pv_memory' = AssignMemory(pv_memory)
    /\ ops' = [cs |-> NoOps, wit |-> AssignOps(w)]
    /\ pc' = "assigned"
    /\ cs' = None
    /\ mod_ext' = None
    /\ UNCHANGED <<nodes, memory, pv>>

\* assign: the places where it can end early, in program order: the
\* indexing of the witness slice, the assignment of the key and of the value
\* item of S and of C, and the write of the last cell of the table.
AssignFailPoints ==
    <<"witness_rows", "rlp_key_s", "rlp_value_s", "rlp_key_c", "rlp_value_c",
      "table_value">>

\* The rows assign may be ending early on.  What stays of a pass that ends
\* before the table is written does not depend on the rows.
AssignFailRows(at) == IF at = "table_value" THEN LeafWitnesses ELSE {None}

\* assign: the channels stored to before a place is reached
AssignStoresBefore(at) ==
    CASE at \in {"witness_rows", "rlp_key_s"} -> {}
      [] at = "rlp_value_s" -> {"key_s"}
      [] at = "rlp_key_c" -> {"key_s", "parent_s"}
      [] at = "rlp_value_c" -> {"key_s", "parent_s", "key_c"}
      [] OTHER -> Channels

\* assign: the cells of the table and of the proof type column written
\* before a place is reached, as (column, row offset, value)
AssignWrittenBefore(p, w, at) ==
    IF at # "table_value" THEN {}
    ELSE (IF AssignNonExisting(w)
          THEN {<<"key_rlc", 5, AssignKeyRlcWrong(p, w)>>,
                <<"proof_type", 5, "StorageDoesNotExist">>}
          ELSE {})
         \cup (IF AssignStorageMod(w)
                THEN {<<"proof_type", 3, "StorageChanged">>} ELSE {})
         \cup {<<"key_rlc", 3, AssignKeyRlc(p, w, FALSE)>>,
                <<"value_prev", 3, value_rlc_of(w.value[TRUE])>>}

AssignOpsBefore(w, at) ==
    [ch \in Channels |->
        IF ch \notin AssignStoresBefore(at) THEN <<>>
        ELSE IF ch = "key_s" /\ at = "table_value" /\ AssignNonExisting(w)
             THEN <<<<"load", 0>>, <<"store">>, <<"load", 1>>>>
             ELSE <<<<"load", 0>>, <<"store">>>>]

\* assign ending early at a place: what was stored and written before it
\* stays.
StorageLeafAssignError(w, at) ==
    /\ pc \in {"path", "mod_ext"}
    /\ rows' = None
    /\ region' = [kind |-> "partial", at |-> at,
                  written |-> AssignWrittenBefore(pv, w, at)]
    /\ pv_memory' =
         [ch \in Channels |->
            IF ch \in AssignStoresBefore(at)
            THEN AssignMemory(pv_memory)[ch] ELSE pv_memory[ch]]
    /\ ops' = [cs |-> NoOps, wit |-> AssignOpsBefore(w, at)]
    /\ pc' = "aborted"
    /\ cs' = None
    /\ mod_ext' = None
    /\ UNCHANGED <<nodes, memory, pv>>

(***************************************************************************)
(* StorageLeafConfig::configure, evaluated over one witness: the rows, the *)
(* cells of the region and the banks.  Each constraint is a record: its    *)
(* name, the lineage it belongs to, whether its condition is on, and       *)
(* whether it holds.                                                       *)
(***************************************************************************)
Lin(is_s) == IF is_s THEN "S" ELSE "C"

Con(name, lin, active, ok) == [name |-> name, lin |-> lin, active |-> active, ok |-> ok]

Bit(b) == IF b THEN 1 ELSE 0

\* What the prover may put into the cells instead of what assign() wrote.
Tampers == {"none", "is_wrong_leaf", "is_wrong_leaf_2", "key_rlc_wrong", "key_rlc"}

Cells(r, tamper) ==
    [r EXCEPT
        !.is_wrong_leaf = IF tamper = "is_wrong_leaf" THEN 1 - @
                          ELSE IF tamper = "is_wrong_leaf_2" THEN 2 ELSE @,
        !.key_rlc_wrong = IF tamper = "key_rlc_wrong" THEN F(@ + 1) ELSE @,
        !.key_rlc = IF tamper = "key_rlc" THEN F(@ + 1) ELSE @]

\* configure: ParentData::load(.., parent_memory(is_s), 0)
LoadParentData(mem, is_s) == MemoryLoad(mem[parent_memory(is_s)], 0)

\* configure: KeyData::load(.., key_memory(is_s), 0)
LoadKeyData(mem, is_s) == MemoryLoad(mem[key_memory(is_s)], 0)

\* Variant: the placeholder status read off the parent of the other lineage.
is_placeholder_leaf_Other(mem, is_s) == IsEmptyTree(LoadParentData(mem, ~is_s).rlc)

\* configure: is_placeholder_leaf, from the parent of the same lineage
is_placeholder_leaf(mem, is_s) == IsEmptyTree(LoadParentData(mem, is_s).rlc)

\* configure: leaf_rlc, the key row chained with the value row by key_mult
ConfLeafRlc(w, cells, is_s) ==
    RlcChain(key_row_rlc(w.key[is_s]), cells.key_mult[is_s],
             value_rlp_rlc_of(w.value[is_s]))

\* configure: key_rlc[is_s]
ConfKeyRlc(mem, w, is_s) ==
    LET key_data == LoadKeyData(mem, is_s)
    IN  F(key_data.rlc + leaf_key_rlc(w.key[is_s], key_data.mult, key_data.is_odd, 1))

\* Variant: the nibble count checked in a placeholder leaf as well.
NibblesActive_Always(mem, is_s) == TRUE

\* configure: the nibble count is checked except in a placeholder leaf
NibblesActive(mem, is_s) == ~is_placeholder_leaf(mem, is_s)

NibblesOk(mem, w, is_s) ==
    LET key_data == LoadKeyData(mem, is_s)
    IN  F(key_data.num_nibbles + num_key_nibbles(w.key[is_s], key_data.is_odd))
            = KEY_LEN_IN_NIBBLES

\* configure: the value of a placeholder leaf is 0
ValueZeroActive(mem, is_s) == is_placeholder_leaf(mem, is_s)

ValueZeroOk(w, is_s) == value_rlc_of(w.value[is_s]) = 0

\* configure: storage = [key, value]
RlpLenOk(w, is_s) ==
    num_bytes(w.key[is_s])
        = num_bytes_on_key_row(w.key[is_s]) + ValueNumBytes(w.value[is_s])

\* configure: LtGadget(rlp_key.num_bytes(), 32)
is_not_hashed(w, is_s) == num_bytes(w.key[is_s]) < 32

\* Variant: the check chosen by the byte length alone, for every leaf.
ParentCheck_ByLength(mem, w, is_s) ==
    IF ~is_not_hashed(w, is_s) THEN "keccak" ELSE "equal"

\* configure: how the leaf is checked to be in its parent
ParentCheck(mem, w, is_s) ==
    IF ~is_placeholder_leaf(mem, is_s)
    THEN IF LoadParentData(mem, is_s).is_root \/ ~is_not_hashed(w, is_s)
         THEN "keccak" ELSE "equal"
    ELSE "none"

ParentKeccakOk(mem, w, cells, is_s) ==
    KeccakLookup(1, ConfLeafRlc(w, cells, is_s), num_bytes(w.key[is_s]),
                 LoadParentData(mem, is_s).rlc)

ParentEqualOk(mem, w, cells, is_s) ==
    ConfLeafRlc(w, cells, is_s) = LoadParentData(mem, is_s).rlc

\* configure: "Key done, set the default values"
ConfKeyStore(loaded) == KeyDataDefault

\* Variant: the parent reference kept in the channel.
ConfParentStore_Keep(loaded) ==
    [rlc |-> loaded.rlc, is_root |-> TRUE, is_placeholder |-> FALSE, placeholder_rlc |-> 0]

\* configure: "Store the new parent"
ConfParentStore(loaded) ==
    [rlc |-> 0, is_root |-> TRUE, is_placeholder |-> FALSE, placeholder_rlc |-> 0]

\* configure: the banks after the loop over the lineages
ConfMemory(mem) ==
    [ch \in Channels |->
        IF ch \in {"key_s", "key_c"}
        THEN MemoryStore(mem[ch], ConfKeyStore(MemoryLoad(mem[ch], 0)))
        ELSE MemoryStore(mem[ch], ConfParentStore(MemoryLoad(mem[ch], 0)))]

LineageConstraints(mem, w, cells, is_s) ==
    {Con("key_mult", Lin(is_s), TRUE,
         cells.key_mult[is_s] = RMult(num_bytes_on_key_row(w.key[is_s]))),
     Con("key_prefix", Lin(is_s), TRUE,
         leaf_key_prefix_ok(w.key[is_s], LoadKeyData(mem, is_s).is_odd)),
     Con("nibbles", Lin(is_s), NibblesActive(mem, is_s), NibblesOk(mem, w, is_s)),
     Con("value_zero", Lin(is_s), ValueZeroActive(mem, is_s), ValueZeroOk(w, is_s)),
     Con("rlp_len", Lin(is_s), ~is_placeholder_leaf(mem, is_s), RlpLenOk(w, is_s)),
     Con("parent_keccak", Lin(is_s), ParentCheck(mem, w, is_s) = "keccak",
         ParentKeccakOk(mem, w, cells, is_s)),
     Con("parent_equal", Lin(is_s), ParentCheck(mem, w, is_s) = "equal",
         ParentEqualOk(mem, w, cells, is_s))}

\* configure: the drifted leaf clause is on when a parent is a placeholder
DriftedActive(mem) ==
    F(Bit(LoadParentData(mem, TRUE).is_placeholder)
        + Bit(LoadParentData(mem, FALSE).is_placeholder)) # 0

\* Variant: the KeyData of the lineage whose parent is no placeholder.
DriftedSource_Other(mem) == ~LoadParentData(mem, TRUE).is_placeholder

\* configure: the lineage whose KeyData gives the key RLC of right before
\* drifted_index is added
DriftedSource(mem) == LoadParentData(mem, TRUE).is_placeholder

DriftedPrev(mem) ==
    LET key_data == LoadKeyData(mem, DriftedSource(mem))
    IN  [key_rlc_prev |-> key_data.parent_rlc,
         key_mult_prev |-> key_data.parent_mult,
         placeholder_nibble |-> key_data.placeholder_nibble,
         placeholder_is_odd |-> key_data.placeholder_is_odd]

\* configure: "Calculate the drifted key RLC"
drifted_key_rlc(prev, drow) ==
    F(prev.key_rlc_prev
        + drifted_nibble_rlc(prev.placeholder_nibble, prev.key_mult_prev,
                             prev.placeholder_is_odd)
        + leaf_key_rlc(drow, prev.key_mult_prev, prev.placeholder_is_odd, Randomness))

\* Variant: the neighbour leaf taken from the other lineage.
DriftedLineage_Other(mem) == ~LoadParentData(mem, TRUE).is_placeholder

\* configure: matchx!, the lineage of the neighbour leaf
DriftedLineage(mem) == LoadParentData(mem, TRUE).is_placeholder

DriftedMatchOne(mem) ==
    Bit(LoadParentData(mem, TRUE).is_placeholder)
        + Bit(LoadParentData(mem, FALSE).is_placeholder) = 1

\* configure: calc_rlc(is_s)
calc_rlc(mem, w, cells, is_s) ==
    [key_rlc |-> ConfKeyRlc(mem, w, is_s),
     drifted_rlc |-> RlcChain(key_row_rlc(w.drifted), cells.drifted_mult,
                              value_rlp_rlc_of(w.value[is_s])),
     mod_hash |-> LoadParentData(mem, is_s).placeholder_rlc]

DriftedConstraints(mem, w, cells) ==
    LET on   == DriftedActive(mem)
        prev == DriftedPrev(mem)
        sel  == calc_rlc(mem, w, cells, DriftedLineage(mem))
    IN  {Con("drifted_mult", "-", on,
             cells.drifted_mult = RMult(num_bytes_on_key_row(w.drifted))),
         Con("drifted_prefix", "-", on,
             leaf_key_prefix_ok(w.drifted, prev.placeholder_is_odd)),
         Con("drifted_one", "-", on, DriftedMatchOne(mem)),
         Con("drifted_key", "-", on, sel.key_rlc = drifted_key_rlc(prev, w.drifted)),
         Con("drifted_keccak", "-", on,
             KeccakLookup(1, sel.drifted_rlc, num_bytes(w.drifted), sel.mod_hash))}

\* Variant: every proof taken for a non-existence proof.
NonExistingProof_Always(cells) == TRUE

\* configure: a!(ctx.proof_type.is_non_existing_storage_proof, wrong_offset)
NonExistingProof(cells) == cells.proof_type_wrong = "StorageDoesNotExist"

\* Variant: the key data read at address 0.
LoadKeyDataW_Latest(mem) == MemoryLoad(ConfMemory(mem)[key_memory(TRUE)], 0)

\* configure: "Get the previous key data", after the stores of the loop
LoadKeyDataW(mem) == MemoryLoad(ConfMemory(mem)[key_memory(TRUE)], 1)

\* configure: key_rlc_wrong
ConfKeyRlcWrong(mem, w) ==
    LET key_data_w == LoadKeyDataW(mem)
    IN  F(key_data_w.rlc
            + leaf_key_rlc(AssignWrongRow(w), key_data_w.mult, key_data_w.is_odd, 1))

\* RequireNotZeroGadget: satisfiable exactly for a nonzero value
RequireNotZero(value) == F(value + FieldModulus) # 0

\* configure: the wrong leaf differs from the leaf of lineage C
WrongNotEqualOk(mem, w, cells) ==
    RequireNotZero(cells.key_rlc_wrong - ConfKeyRlc(mem, w, FALSE))

\* Variant: the key lengths not compared.
WrongKeyLenOk_Skip(w) == TRUE

\* configure: "Make sure the lengths of the keys are the same"
WrongKeyLenOk(w) == key_len(AssignWrongRow(w)) = key_len(w.key[FALSE])

\* Variant: the flag of lineage S in place of the flag of lineage C.
WrongNilOk_FlagS(mem) == LoadKeyDataW(mem).is_placeholder_leaf_s

\* configure: without a wrong leaf there is a nil object in the parent branch
WrongNilOk(mem) == LoadKeyDataW(mem).is_placeholder_leaf_c

WrongConstraints(mem, w, cells) ==
    LET ne    == NonExistingProof(cells)
        wrong == ne /\ cells.is_wrong_leaf # 0
        nil   == ne /\ cells.is_wrong_leaf # 1
    IN  {Con("is_wrong_bool", "-", TRUE, cells.is_wrong_leaf \in {0, 1}),
         Con("wrong_prefix", "-", wrong,
             leaf_key_prefix_ok(AssignWrongRow(w), LoadKeyDataW(mem).is_odd)),
         Con("wrong_key_lookup", "-", wrong,
             cells.key_rlc_wrong = ConfKeyRlcWrong(mem, w)),
         Con("wrong_not_equal", "-", wrong, WrongNotEqualOk(mem, w, cells)),
         Con("wrong_key_len", "-", wrong, WrongKeyLenOk(w)),
         Con("wrong_nil", "-", nil, WrongNilOk(mem)),
         Con("is_wrong_false", "-", ~ne, cells.is_wrong_leaf = 0)}

\* Variant: value_prev bound to the value of lineage C.
TableConstraints_ValueC(mem, w, cells) ==
    {Con("table_key_rlc", "-", TRUE, cells.key_rlc = ConfKeyRlc(mem, w, FALSE)),
     Con("table_value_prev", "-", TRUE, cells.value_prev = value_rlc_of(w.value[FALSE])),
     Con("table_value", "-", TRUE, cells.value = value_rlc_of(w.value[FALSE]))}

\* configure: "Put the data in the lookup table"
TableConstraints(mem, w, cells) ==
    {Con("table_key_rlc", "-", TRUE, cells.key_rlc = ConfKeyRlc(mem, w, FALSE)),
     Con("table_value_prev", "-", TRUE, cells.value_prev = value_rlc_of(w.value[TRUE])),
     Con("table_value", "-", TRUE, cells.value = value_rlc_of(w.value[FALSE]))}

LeafConstraints(mem, w, cells) ==
    LineageConstraints(mem, w, cells, TRUE)
        \cup LineageConstraints(mem, w, cells, FALSE)
        \cup DriftedConstraints(mem, w, cells)
        \cup WrongConstraints(mem, w, cells)
        \cup TableConstraints(mem, w, cells)

ConfOps(cells) ==
    [ch \in Channels |->
        IF ch = "key_s" /\ NonExistingProof(cells)
        THEN <<<<"load", 0>>, <<"store">>, <<"load", 1>>>>
        ELSE <<<<"load", 0>>, <<"store">>>>]

\* The constraint system of the leaf over the witness (mem, w, cells).
ConfigureLeaf(mem, w, cells) ==
    LET all == LeafConstraints(mem, w, cells)
    IN  [kind |-> "leaf",
         cells |-> cells,
         parent_data |-> [is_s \in Lineages |-> LoadParentData(mem, is_s)],
         key_data |-> [is_s \in Lineages |-> LoadKeyData(mem, is_s)],
         is_placeholder_leaf |-> [is_s \in Lineages |-> is_placeholder_leaf(mem, is_s)],
         key_rlc |-> [is_s \in Lineages |-> ConfKeyRlc(mem, w, is_s)],
         value_rlc |-> [is_s \in Lineages |-> value_rlc_of(w.value[is_s])],
         leaf_rlc |-> [is_s \in Lineages |-> ConfLeafRlc(w, cells, is_s)],
         drifted |-> IF DriftedActive(mem)
                     THEN [prev |-> DriftedPrev(mem),
                           key_rlc |-> drifted_key_rlc(DriftedPrev(mem), w.drifted),
                           sel |-> calc_rlc(mem, w, cells, DriftedLineage(mem))]
                     ELSE None,
         key_data_w |-> IF NonExistingProof(cells) THEN LoadKeyDataW(mem) ELSE None,
         key_rlc_wrong |-> IF NonExistingProof(cells) /\ cells.is_wrong_leaf # 0
                           THEN ConfKeyRlcWrong(mem, w) ELSE 0,
         active |-> {<<c.name, c.lin>> : c \in {x \in all : x.active}},
         failed |-> {<<c.name, c.lin>> : c \in {x \in all : x.active /\ ~x.ok}}]

StorageLeafConfigure(tamper) ==
    /\ pc = "assigned"
    /\ cs' = ConfigureLeaf(memory, rows, Cells(region, tamper))
    /\ memory' = ConfMemory(memory)
    /\ ops' = [ops EXCEPT !.cs = ConfOps(Cells(region, tamper))]
    /\ pc' = "done"
    /\ UNCHANGED <<nodes, pv, pv_memory, rows, region, mod_ext>>

(***************************************************************************)
(* ModExtensionGadget.  The key items are the long and the short           *)
(* extension key (hex-prefix: 0 then whole bytes, or 16 + nibble then      *)
(* whole bytes), the values the nodes they point to.                       *)
(***************************************************************************)
ExtKeys == {<<0, 18>>, <<17>>, <<33>>, <<5, 18>>}

ExtValues == {<<9>>, [i \in 1 .. HASH_WIDTH |-> 9]}

ModExtWitnesses ==
    {[key |-> [is_s \in Lineages |-> IF is_s THEN ks ELSE kc],
      value |-> [is_s \in Lineages |-> v]] :
        ks \in ExtKeys, kc \in ExtKeys, v \in ExtValues}

\* assign: first_key_byte
first_key_byte(m, is_s) == m.key[is_s][1]

\* Variant: the parity read off the low bit of the byte.
AssignIsKeyPartOdd_LowBit(m, is_s) == first_key_byte(m, is_s) % 2 = 1

\* assign: is_key_part_odd = first_key_byte >> 4 == 1
AssignIsKeyPartOdd(m, is_s) == first_key_byte(m, is_s) \div 16 = 1

\* assign: the assertions on the first key byte
AssignFirstByteOk(m, is_s) ==
    IF AssignIsKeyPartOdd(m, is_s)
    THEN first_key_byte(m, is_s) < 32
    ELSE first_key_byte(m, is_s) = 0

\* assign: one pass over the lineages, S first; an assertion that fails
\* ends the pass
ModExtensionAssign(m) ==
    /\ pc = "path"
    /\ LET ok_s == AssignFirstByteOk(m, TRUE)
           ok_c == AssignFirstByteOk(m, FALSE)
       IN  /\ mod_ext' =
                [kind |-> "mod_ext",
                 witness |-> m,
                 is_key_part_odd |->
                    [is_s \in Lineages |->
                        IF (is_s /\ ok_s) \/ (~is_s /\ ok_s /\ ok_c)
                        THEN Bit(AssignIsKeyPartOdd(m, is_s)) ELSE 0],
                 is_not_hashed |->
                    [is_s \in Lineages |->
                        IF (is_s /\ ok_s) \/ (~is_s /\ ok_s /\ ok_c)
                        THEN ExtNumBytes(m, is_s) < HASH_WIDTH ELSE FALSE],
                 cs |-> None]
           /\ pc' = IF ok_s /\ ok_c THEN "mod_ext_assigned" ELSE "aborted"
    /\ ops' = [cs |-> NoOps, wit |-> NoOps]
    /\ UNCHANGED <<nodes, memory, pv, pv_memory, rows, region, cs>>

\* FixedTableTag::ExtOddKey: the parity flag of a first key byte
ExtOddKey(first_byte, is_odd) ==
    \/ first_byte = 0 /\ is_odd = 0
    \/ first_byte \in 16 .. 31 /\ is_odd = 1

\* Variant: the parent loaded for both lineages.
ModExtLoadsParent_Both(is_s) == TRUE

\* configure: the parent is loaded for lineage S only
ModExtLoadsParent(is_s) == is_s

\* configure: how the node is checked to be in its parent
ModExtParentCheck(mem, m, is_s) ==
    IF ModExtLoadsParent(is_s)
    THEN IF LoadParentData(mem, is_s).is_root \/ ~(ExtNumBytes(m, is_s) < HASH_WIDTH)
         THEN "keccak" ELSE "equal"
    ELSE "none"

ModExtConstraints(mem, m, cells, is_s) ==
    {Con("ext_odd_key", Lin(is_s), TRUE,
         ExtOddKey(first_key_byte(m, is_s), cells.is_key_part_odd[is_s])),
     Con("parent_keccak", Lin(is_s), ModExtParentCheck(mem, m, is_s) = "keccak",
         KeccakLookup(1, ExtNodeRlc(m, is_s), ExtNumBytes(m, is_s),
                      LoadParentData(mem, is_s).rlc)),
     Con("parent_equal", Lin(is_s), ModExtParentCheck(mem, m, is_s) = "equal",
         ExtNodeRlc(m, is_s) = LoadParentData(mem, is_s).rlc)}

\* configure: the loads and stores of the gadget
ModExtOps ==
    [ch \in Channels |->
        IF \E is_s \in Lineages : ModExtLoadsParent(is_s) /\ ch = parent_memory(is_s)
        THEN <<<<"load", 0>>>> ELSE <<>>]

ModExtensionConfigure ==
    /\ pc = "mod_ext_assigned"
    /\ LET m   == mod_ext.witness
           all == ModExtConstraints(memory, m, mod_ext, TRUE)
                    \cup ModExtConstraints(memory, m, mod_ext, FALSE)
       IN  mod_ext' =
             [mod_ext EXCEPT !.cs =
                [kind |-> "mod_ext",
                 parent_check |-> [is_s \in Lineages |-> ModExtParentCheck(memory, m, is_s)],
                 active |-> {<<c.name, c.lin>> : c \in {x \in all : x.active}},
                 failed |-> {<<c.name, c.lin>> : c \in {x \in all : x.active /\ ~x.ok}}]]
    /\ ops' = [ops EXCEPT !.cs = ModExtOps]
    /\ pc' = "mod_ext"
    /\ UNCHANGED <<nodes, memory, pv, pv_memory, rows, region, cs>>

Next ==
    \/ \E p \in BranchParams(nodes = 0) : ExtensionBranch(p)
    \/ \E m \in ModExtWitnesses : ModExtensionAssign(m)
    \/ ModExtensionConfigure
    \/ \E w \in LeafWitnesses : StorageLeafAssign(w)
    \/ \E i \in DOMAIN AssignFailPoints :
          \E w \in AssignFailRows(AssignFailPoints[i]) :
              StorageLeafAssignError(w, AssignFailPoints[i])
    \/ \E t \in Tampers : StorageLeafConfigure(t)

Spec == Init /\ [][Next]_vars

\* The witness is accepted: no active constraint of the leaf fails.
Accepted == cs.kind = "leaf" /\ cs.failed = {}

(***************************************************************************)
(* Properties of the storage leaf and of the modified extension node.      *)
(* After the leaf, the value a channel held when the leaf loaded it lies   *)
(* one store back.                                                         *)
(***************************************************************************)
LeafLoaded(ch) == MemoryLoad(memory[ch], 1)

\* C1: for each lineage whose leaf is no placeholder, the nibble count
\* loaded from the key channel plus the key nibbles of the leaf is 64: the
\* check is on and fails exactly when the sum differs; in a placeholder
\* leaf the check is off.
C1_NibbleCount ==
    pc = "done" =>
        \A is_s \in Lineages :
            LET key_data == LeafLoaded(key_memory(is_s))
                parent   == LeafLoaded(parent_memory(is_s))
                sum      == key_data.num_nibbles
                              + num_key_nibbles(rows.key[is_s], key_data.is_odd)
                check    == <<"nibbles", Lin(is_s)>>
            IN  IF IsEmptyTree(parent.rlc)
                THEN check \notin cs.active
                ELSE /\ check \in cs.active
                     /\ check \in cs.failed <=> sum # KEY_LEN_IN_NIBBLES

\* A placeholder leaf S and a leaf C, both 62 nibbles deep in all: the
\* witness is rejected by the nibble count of C alone.
C1_Witness ==
    /\ pc = "done"
    /\ cs.is_placeholder_leaf[TRUE]
    /\ LeafLoaded("key_s").num_nibbles
         + num_key_nibbles(rows.key[TRUE], LeafLoaded("key_s").is_odd)
            # KEY_LEN_IN_NIBBLES
    /\ cs.failed = {<<"nibbles", "C">>}

\* C2: a lineage is a placeholder leaf exactly when the parent RLC loaded
\* from its parent channel is that of the empty trie, and in a placeholder
\* leaf the value RLC must be 0: the check fails exactly for a nonzero value.
C2_PlaceholderLeaf ==
    pc = "done" =>
        \A is_s \in Lineages :
            LET parent == LeafLoaded(parent_memory(is_s))
                check  == <<"value_zero", Lin(is_s)>>
            IN  /\ cs.is_placeholder_leaf[is_s] <=> parent.rlc = EmptyTrieRlc
                /\ cs.is_placeholder_leaf[is_s] =>
                     (check \in cs.failed <=> value_rlc_of(rows.value[is_s]) # 0)

\* A nonzero value under a placeholder parent, rejected for that alone.
C2_Witness ==
    /\ pc = "done"
    /\ LeafLoaded("parent_s").rlc = EmptyTrieRlc
    /\ value_rlc_of(rows.value[TRUE]) # 0
    /\ cs.failed = {<<"value_zero", "S">>}

\* C3 as stated: for every lineage exactly one parent check applies, the
\* Keccak lookup when the leaf has at least 32 bytes and the equality when
\* it has fewer; never neither, never both.
C3_AsStated ==
    pc = "done" =>
        \A is_s \in Lineages :
            LET hashed == num_bytes(rows.key[is_s]) >= HASH_WIDTH
            IN  /\ <<"parent_keccak", Lin(is_s)>> \in cs.active <=> hashed
                /\ <<"parent_equal", Lin(is_s)>> \in cs.active <=> ~hashed

\* C3: a placeholder leaf gets neither parent check; any other leaf gets
\* exactly one: the Keccak lookup of (1, leaf RLC, byte length, parent RLC)
\* when the parent is the root or the leaf has at least 32 bytes, the
\* equality of leaf RLC and parent RLC otherwise.
C3_ParentCheck ==
    pc = "done" =>
        \A is_s \in Lineages :
            LET parent == LeafLoaded(parent_memory(is_s))
                hashed == num_bytes(rows.key[is_s]) >= HASH_WIDTH
                keccak == <<"parent_keccak", Lin(is_s)>>
                equal  == <<"parent_equal", Lin(is_s)>>
            IN  IF IsEmptyTree(parent.rlc)
                THEN keccak \notin cs.active /\ equal \notin cs.active
                ELSE /\ keccak \in cs.active <=> (parent.is_root \/ hashed)
                     /\ equal \in cs.active <=> ~(parent.is_root \/ hashed)
                     /\ keccak \in cs.failed <=>
                          /\ keccak \in cs.active
                          /\ ~KeccakLookup(1, cs.leaf_rlc[is_s],
                                           num_bytes(rows.key[is_s]), parent.rlc)
                     /\ equal \in cs.failed <=>
                          /\ equal \in cs.active
                          /\ cs.leaf_rlc[is_s] # parent.rlc

\* An accepted insertion: no parent check on the placeholder leaf S, the
\* equality on the short leaf C.
C3_Witness ==
    /\ Accepted
    /\ cs.is_placeholder_leaf[TRUE]
    /\ <<"parent_keccak", "S">> \notin cs.active
    /\ <<"parent_equal", "S">> \notin cs.active
    /\ <<"parent_equal", "C">> \in cs.active

\* The loads at address 0 and the stores of a channel, in order.
PrimaryOps(seq) == SelectSeq(seq, LAMBDA o : o # <<"load", 1>>)

\* C4 as stated: for every node processed, storage leaf and modified
\* extension node alike, each of the four channels sees one load at
\* address 0 followed by one store, in the constraints and in the witness
\* generation.
C4_AsStated ==
    pc \in {"done", "mod_ext"} =>
        \A ch \in Channels :
            /\ PrimaryOps(ops.cs[ch]) = <<<<"load", 0>>, <<"store">>>>
            /\ PrimaryOps(ops.wit[ch]) = <<<<"load", 0>>, <<"store">>>>

\* A modified extension node has been processed: the parent channel of S
\* loaded, nothing stored, the other channels untouched.
C4_Witness ==
    /\ pc = "mod_ext"
    /\ ops.cs["parent_s"] = <<<<"load", 0>>>>
    /\ \A ch \in Channels \ {"parent_s"} : ops.cs[ch] = <<>>
    /\ \A ch \in Channels : ops.wit[ch] = <<>>

\* C5: after a storage leaf every channel holds the value it held at path
\* start, whatever the nodes before the leaf left in it, in the banks of the
\* constraints and in the banks of the witness generation.
C5_ChannelsReset ==
    /\ pc = "done" =>
         \A ch \in Channels :
            /\ MemoryLoad(memory[ch], 0) = memory[ch][1]
            /\ MemoryLoad(memory[ch], 0) = ChannelDefault(ch)
    /\ pc \in {"assigned", "done"} =>
         \A ch \in Channels :
            /\ MemoryLoad(pv_memory[ch], 0) = pv_memory[ch][1]
            /\ MemoryLoad(pv_memory[ch], 0) = ChannelDefault(ch)

\* A leaf below two nodes that left no channel at its default.
C5_Witness ==
    /\ pc = "done"
    /\ nodes >= 2
    /\ \A ch \in Channels : LeafLoaded(ch) # ChannelDefault(ch)

\* A non-existence proof with is_wrong_leaf set.
WrongLeafCase ==
    pc = "done" /\ NonExistingProof(cs.cells) /\ cs.cells.is_wrong_leaf = 1

\* C6: in a non-existence proof with is_wrong_leaf set, the witness is
\* rejected exactly by the not-equal check when the requested key RLC is
\* the key RLC of the leaf of lineage C, and exactly by the length check
\* when the key of the wrong leaf and the key of leaf C differ in length;
\* an accepted witness has a different key RLC and the same key length.
C6_WrongLeaf ==
    WrongLeafCase =>
        LET same_rlc == cs.cells.key_rlc_wrong = cs.key_rlc[FALSE]
            same_len == Len(rows.wrong.key) = Len(rows.key[FALSE].key)
        IN  /\ <<"wrong_not_equal", "-">> \in cs.failed <=> same_rlc
            /\ <<"wrong_key_len", "-">> \in cs.failed <=> ~same_len
            /\ Accepted => ~same_rlc /\ same_len

\* An accepted non-existence proof with a wrong leaf.
C6_Witness ==
    /\ WrongLeafCase
    /\ Accepted
    /\ rows.wrong.key # rows.key[FALSE].key

\* C7: in a non-existence proof with is_wrong_leaf set, the candidate key
\* RLC is computed from the KeyData at address 1 of the key channel of S,
\* the value of before the leaf's own default store, and the key RLC of the
\* table at the wrong row must equal it.
C7_CandidateKey ==
    WrongLeafCase =>
        LET key_data_w == MemoryLoad(memory["key_s"], 1)
            candidate  == F(key_data_w.rlc
                              + leaf_key_rlc(AssignWrongRow(rows), key_data_w.mult,
                                             key_data_w.is_odd, 1))
        IN  /\ MemoryLoad(memory["key_s"], 0) = KeyDataDefault
            /\ cs.key_data_w = key_data_w
            /\ cs.cells.key_data_w = key_data_w
            /\ cs.key_rlc_wrong = candidate
            /\ <<"wrong_key_lookup", "-">> \in cs.failed
                 <=> cs.cells.key_rlc_wrong # candidate

\* Below at least one node, an accepted wrong leaf: the snapshot is not
\* the default the leaf stored.
C7_Witness ==
    /\ WrongLeafCase
    /\ Accepted
    /\ nodes >= 1
    /\ cs.key_data_w # KeyDataDefault
    /\ cs.cells.key_rlc_wrong = cs.key_rlc_wrong

\* C8: in a non-existence proof with is_wrong_leaf 0, the KeyData at
\* address 1 of the key channel must have the placeholder leaf flag of
\* lineage C: the witness is rejected by that check exactly when the flag
\* is not set.
C8_NilObject ==
    pc = "done" /\ NonExistingProof(cs.cells) /\ cs.cells.is_wrong_leaf = 0 =>
        /\ <<"wrong_nil", "-">> \in cs.active
        /\ <<"wrong_nil", "-">> \in cs.failed
             <=> ~MemoryLoad(memory["key_s"], 1).is_placeholder_leaf_c

\* A non-existence claim with neither a wrong leaf nor the flag, rejected
\* for that alone.
C8_Witness ==
    /\ pc = "done"
    /\ NonExistingProof(cs.cells)
    /\ cs.cells.is_wrong_leaf = 0
    /\ ~MemoryLoad(memory["key_s"], 1).is_placeholder_leaf_c
    /\ cs.failed = {<<"wrong_nil", "-">>}

\* The parent of lineage is_s is a placeholder, the other parent is not.
OnlyPlaceholder(is_s) ==
    /\ pc = "done"
    /\ LeafLoaded(parent_memory(is_s)).is_placeholder
    /\ ~LeafLoaded(parent_memory(~is_s)).is_placeholder

\* C9: when the parent of exactly one lineage is a placeholder, the drifted
\* leaf RLC (drifted key row chained with the value row of that lineage)
\* must be in the Keccak table against the placeholder_rlc of that parent,
\* and the key RLC rebuilt through the drifted nibble must be the key RLC of
\* the leaf of that lineage; no other nibble rebuilds the same key RLC.
C9_DriftedLeaf ==
    \A is_s \in Lineages :
        OnlyPlaceholder(is_s) =>
            LET drifted_rlc == RlcChain(key_row_rlc(rows.drifted), cs.cells.drifted_mult,
                                        value_rlp_rlc_of(rows.value[is_s]))
                mod_hash    == LeafLoaded(parent_memory(is_s)).placeholder_rlc
                rebuilt(n)  == drifted_key_rlc(
                                   [cs.drifted.prev EXCEPT !.placeholder_nibble = n],
                                   rows.drifted)
                nibble      == cs.drifted.prev.placeholder_nibble
            IN  /\ <<"drifted_keccak", "-">> \in cs.failed
                     <=> ~KeccakLookup(1, drifted_rlc, num_bytes(rows.drifted), mod_hash)
                /\ <<"drifted_key", "-">> \in cs.failed
                     <=> cs.key_rlc[is_s] # rebuilt(nibble)
                /\ \A n \in 0 .. 15 : n # nibble => rebuilt(n) # rebuilt(nibble)

\* An accepted insertion below a placeholder branch of S.
C9_Witness ==
    /\ OnlyPlaceholder(TRUE)
    /\ Accepted
    /\ cs.drifted.prev.placeholder_nibble = DriftedIndex

\* What the drifted clause reads of a KeyData.
DriftedPrevOf(key_data) ==
    [key_rlc_prev |-> key_data.parent_rlc,
     key_mult_prev |-> key_data.parent_mult,
     placeholder_nibble |-> key_data.placeholder_nibble,
     placeholder_is_odd |-> key_data.placeholder_is_odd]

\* The drifted clause is on exactly when a parent is a placeholder, in the
\* constraints and in the witness generation.
DriftedOnIffPlaceholder ==
    LET some == \E is_s \in Lineages : LeafLoaded(parent_memory(is_s)).is_placeholder
    IN  /\ <<"drifted_key", "-">> \in cs.active <=> some
        /\ <<"drifted_keccak", "-">> \in cs.active <=> some
        /\ AssignDrifted(pv) <=> some

\* C10 as stated: the drifted clause is on exactly when a parent is a
\* placeholder, and the previous key RLC, multiplier, nibble and parity
\* come from the KeyData of the lineage whose parent is not the placeholder.
C10_AsStated ==
    pc = "done" =>
        /\ DriftedOnIffPlaceholder
        /\ \A is_s \in Lineages :
              OnlyPlaceholder(is_s) =>
                  cs.drifted.prev = DriftedPrevOf(LeafLoaded(key_memory(~is_s)))

\* C10: the drifted clause is on exactly when a parent is a placeholder,
\* and the previous key RLC, multiplier, nibble and parity come from the
\* KeyData of the lineage whose parent is the placeholder.
C10_DriftedSource ==
    pc = "done" =>
        /\ DriftedOnIffPlaceholder
        /\ \A is_s \in Lineages :
              OnlyPlaceholder(is_s) =>
                  cs.drifted.prev = DriftedPrevOf(LeafLoaded(key_memory(is_s)))

\* An accepted deletion below a placeholder branch of C, the KeyData of the
\* two lineages differing in what the clause reads.
C10_Witness ==
    /\ OnlyPlaceholder(FALSE)
    /\ Accepted
    /\ DriftedPrevOf(LeafLoaded("key_c")) # DriftedPrevOf(LeafLoaded("key_s"))

\* The parity of the first key byte of the leaf of a lineage is the parity
\* of the nibbles above the leaf.
KeyParityAgrees(is_s) ==
    LeafLoaded(key_memory(is_s)).is_odd <=> rows.key[is_s].key[1] # 32

C12_ProofTypeTags ==
    pc \in {"assigned", "done"} =>
        LET non_existing == rows.wrong.non_existing = 1
            storage_mod  == rows.value[FALSE].storage_mod = 1
        IN  /\ region.proof_type_wrong = "StorageDoesNotExist" <=> non_existing
            /\ region.proof_type_wrong \in {"StorageDoesNotExist", "none"}
            /\ region.key_rlc_wrong =
                 IF non_existing
                 THEN witness_leaf_key_rlc(AssignWrongRow(rows), pv.key_rlc,
                                           pv.key_rlc_mult)
                 ELSE 0
            /\ region.proof_type = "StorageChanged" <=> storage_mod
            /\ region.proof_type \in {"StorageChanged", "none"}
            /\ ~non_existing /\ ~storage_mod =>
                 region.proof_type = "none" /\ region.proof_type_wrong = "none"

\* A non-existence proof after assign: fingerprint and tag at the wrong row,
\* no tag at the lookup row.
C12_Witness ==
    /\ pc = "assigned"
    /\ rows.wrong.non_existing = 1
    /\ region.proof_type_wrong = "StorageDoesNotExist"
    /\ region.key_rlc_wrong # 0
    /\ region.proof_type = "none"

\* C13: in a modified extension node the node RLC of S (the key item of S
\* chained in reverse with the value item of S) is bound to the parent
\* loaded from the parent channel of S: by the Keccak lookup of (1, node
\* RLC, byte length, parent RLC) when the parent is the root or the node has
\* at least 32 bytes, by equality otherwise; each check fails exactly when
\* the binding is broken.  Lineage C gets neither check and no load.
C13_ModExtParent ==
    pc = "mod_ext" =>
        LET m        == mod_ext.witness
            parent   == MemoryLoad(memory["parent_s"], 0)
            key_s    == RlpListHeader(ExtListLen(m, TRUE)) \o RlpString(m.key[TRUE])
            node_rlc == RlcRev(key_s \o RlpString(m.value[TRUE]))
            length   == Len(key_s) + Len(RlpString(m.value[TRUE]))
            hashed   == parent.is_root \/ length >= HASH_WIDTH
            active   == mod_ext.cs.active
            failed   == mod_ext.cs.failed
        IN  /\ <<"parent_keccak", "S">> \in active <=> hashed
            /\ <<"parent_equal", "S">> \in active <=> ~hashed
            /\ <<"parent_keccak", "S">> \in failed
                 <=> hashed /\ ~KeccakLookup(1, node_rlc, length, parent.rlc)
            /\ <<"parent_equal", "S">> \in failed
                 <=> ~hashed /\ node_rlc # parent.rlc
            /\ <<"parent_keccak", "C">> \notin active
            /\ <<"parent_equal", "C">> \notin active
            /\ ops.cs["parent_c"] = <<>>

\* A short extension node accepted by equality with the parent that holds
\* it, its key item differing from its value item.
C13_Witness ==
    /\ pc = "mod_ext"
    /\ mod_ext.cs.failed = {}
    /\ <<"parent_equal", "S">> \in mod_ext.cs.active
    /\ ~MemoryLoad(memory["parent_s"], 0).is_root
    /\ mod_ext.witness.key[TRUE] # mod_ext.witness.value[TRUE]

\* A long extension node accepted by the Keccak lookup against its parent.
C13_WitnessHashed ==
    /\ pc = "mod_ext"
    /\ mod_ext.cs.failed = {}
    /\ <<"parent_keccak", "S">> \in mod_ext.cs.active
    /\ ~MemoryLoad(memory["parent_s"], 0).is_root

\* An extension node directly below the root, checked by the Keccak lookup
\* though it is short.
C13_WitnessRoot ==
    /\ pc = "mod_ext"
    /\ <<"parent_keccak", "S">> \in mod_ext.cs.active
    /\ MemoryLoad(memory["parent_s"], 0).is_root
    /\ ExtNumBytes(mod_ext.witness, TRUE) < HASH_WIDTH

\* The nibbles of the key item of an extension node: two a byte after the
\* first, and one in the first byte when the key part is odd.
ExtKeyNibbles(m, is_s) ==
    2 * (Len(m.key[is_s]) - 1) + mod_ext.is_key_part_odd[is_s]

\* C14 as stated: once a modified extension node is processed, each key
\* channel has been stored to, in the constraints and in the witness
\* generation, and the KeyData it now holds counts the key nibbles of the
\* node on top of the count it held before.
C14_AsStated ==
    pc = "mod_ext" =>
        \A is_s \in Lineages :
            LET ch == key_memory(is_s)
            IN  /\ \E i \in DOMAIN ops.cs[ch] : ops.cs[ch][i] = <<"store">>
                /\ \E i \in DOMAIN ops.wit[ch] : ops.wit[ch][i] = <<"store">>
                /\ MemoryLoad(memory[ch], 0).num_nibbles
                     = MemoryLoad(memory[ch], 1).num_nibbles + ExtKeyNibbles(mod_ext.witness, is_s)

\* An extension node accepted below a branch: no key channel was stored
\* to, and the key channels hold what the branch left.
C14_Witness ==
    /\ pc = "mod_ext"
    /\ nodes >= 1
    /\ mod_ext.cs.failed = {}
    /\ ExtKeyNibbles(mod_ext.witness, TRUE) > 0
    /\ \A is_s \in Lineages :
          /\ ops.cs[key_memory(is_s)] = <<>>
          /\ ops.wit[key_memory(is_s)] = <<>>
          /\ Len(memory[key_memory(is_s)]) = nodes + 1

\* The RLP item kind list of a variant has one entry for each row of it.
RowCountsAgree ==
    /\ Len(NODE_RLP_TYPES_START) = Len(StartRowType) /\ Len(StartRowType) = 2
    /\ Len(NODE_RLP_TYPES_BRANCH) = Len(ExtensionBranchRowType)
    /\ Len(ExtensionBranchRowType) = 21
    /\ Len(NODE_RLP_TYPES_ACCOUNT) = Len(AccountRowType) /\ Len(AccountRowType) = 14
    /\ Len(NODE_RLP_TYPES_STORAGE) = Len(StorageRowType) /\ Len(StorageRowType) = 8

\* The rows the storage leaf addresses exist and have the kind it reads.
StorageLeafRowsExist ==
    \A q \in StorageLeafRowRequests :
        /\ q.position + 1 \in DOMAIN NODE_RLP_TYPES_STORAGE
        /\ NODE_RLP_TYPES_STORAGE[q.position + 1] = q.kind

\* The rows the modified extension node addresses exist in StorageRowType
\* and have the kind it requests.
ModExtRowsExist ==
    \A q \in ModExtRowRequests :
        LET position == RowPosition(StorageRowType, q.name)
        IN  /\ position >= 0
            /\ NODE_RLP_TYPES_STORAGE[position + 1] = q.kind

\* C15 as stated: the item kind list of each variant has the length of the
\* variant's row count (Start 2, ExtensionBranch 21, Account 14, Storage
\* 8), and every row a gadget addresses, storage leaf and modified
\* extension node, exists in the enumeration of its variant with the kind
\* requested, whenever a node of either gadget has been processed.
C15_AsStated ==
    pc \in {"assigned", "done", "mod_ext_assigned", "mod_ext"} =>
        /\ RowCountsAgree
        /\ StorageLeafRowsExist
        /\ ModExtRowsExist

\* The part of C15 that holds: the row counts and the rows of the storage
\* leaf.
C15_CountsAndLeafRows ==
    RowCountsAgree /\ StorageLeafRowsExist

\* A modified extension node has been assigned its four rows, none of
\* which StorageRowType names.
C15_Witness ==
    /\ pc = "mod_ext_assigned"
    /\ \A q \in ModExtRowRequests : RowPosition(StorageRowType, q.name) = -1

\* The assignment of a storage leaf ended early.
LeafAssignAborted == pc = "aborted" /\ region.kind = "partial"

\* C16 as stated: when the assignment of a storage leaf ends early,
\* wherever it does, no channel has been stored to and no cell of the table
\* has been written for that leaf.
C16_AsStated ==
    LeafAssignAborted =>
        /\ \A ch \in Channels :
              \A i \in DOMAIN ops.wit[ch] : ops.wit[ch][i] # <<"store">>
        /\ region.written = {}

\* The part of C16 that holds: a witness slice too short, or a failure
\* before the first store, leaves the channels and the table untouched.
C16_BeforeFirstStore ==
    LeafAssignAborted /\ region.at \in {"witness_rows", "rlp_key_s"} =>
        /\ \A ch \in Channels : ops.wit[ch] = <<>>
        /\ \A ch \in Channels : Len(pv_memory[ch]) = nodes + 1
        /\ region.written = {}

\* The value item of S failed below a branch: the key channel of S holds
\* the default the leaf stored, the other channels what the branch left.
C16_Witness ==
    /\ LeafAssignAborted
    /\ region.at = "rlp_value_s"
    /\ nodes >= 1
    /\ Len(pv_memory["key_s"]) = nodes + 2
    /\ MemoryLoad(pv_memory["key_s"], 0) = KeyDataDefault
    /\ \A ch \in Channels \ {"key_s"} : Len(pv_memory[ch]) = nodes + 1

\* The last cell of the table failed: the key RLC and value_prev of the row
\* are written, value is not.
C16_WitnessTable ==
    /\ LeafAssignAborted
    /\ region.at = "table_value"
    /\ \E c \in region.written : c[1] = "key_rlc" /\ c[2] = 3
    /\ \A c \in region.written : c[1] # "value"

\* The key RLC and multiplier the constraints start the leaf key RLC of a
\* lineage from.
ConfKeyStart(is_s) ==
    [rlc |-> LeafLoaded(key_memory(is_s)).rlc, mult |-> LeafLoaded(key_memory(is_s)).mult]

FirstKeyBytes == {0} \cup 16 .. 31

\* C18: in a modified extension node that witness generation has taken,
\* the first key byte of each lineage is 0x00 or in 0x10..0x1f, the flag
\* is_key_part_odd is 1 exactly when the high nibble of that byte is 1, and
\* the flag is the one the ExtOddKey table has for the byte, so that the
\* lookup holds; witness generation aborts exactly when the first key byte
\* of a lineage is any other value.
C18_KeyPartOdd ==
    /\ pc \in {"mod_ext_assigned", "mod_ext"} =>
          \A is_s \in Lineages :
              LET byte == mod_ext.witness.key[is_s][1]
                  flag == mod_ext.is_key_part_odd[is_s]
              IN  /\ byte \in FirstKeyBytes
                  /\ flag \in {0, 1}
                  /\ flag = 1 <=> byte \div 16 = 1
                  /\ ExtOddKey(byte, flag)
                  /\ ~ExtOddKey(byte, 1 - flag)
                  /\ pc = "mod_ext" =>
                        <<"ext_odd_key", Lin(is_s)>> \notin mod_ext.cs.failed
    /\ pc = "aborted" /\ mod_ext.kind = "mod_ext" =>
          \E is_s \in Lineages : mod_ext.witness.key[is_s][1] \notin FirstKeyBytes

\* An extension node with an odd key part in S and an even one in C.
C18_Witness ==
    /\ pc = "mod_ext"
    /\ mod_ext.is_key_part_odd[TRUE] = 1
    /\ mod_ext.witness.key[TRUE][1] \in 16 .. 31
    /\ mod_ext.is_key_part_odd[FALSE] = 0
    /\ mod_ext.witness.key[FALSE][1] = 0

\* Witness generation aborted on a first key byte of C with high nibble 0
\* that is not 0.
C18_WitnessAbort ==
    /\ pc = "aborted"
    /\ mod_ext.kind = "mod_ext"
    /\ mod_ext.witness.key[TRUE][1] \in FirstKeyBytes
    /\ mod_ext.witness.key[FALSE][1] \in 1 .. 15

\* The checks of the wrong-leaf clause.
WrongLeafChecks ==
    {<<n, "-">> : n \in {"wrong_prefix", "wrong_key_lookup", "wrong_not_equal",
                         "wrong_key_len", "wrong_nil"}}

\* C19: the witness is rejected by the boolean check exactly when
\* is_wrong_leaf is neither 0 nor 1; when the proof is not a non-existence
\* proof, it is rejected exactly when the flag is not 0, none of the
\* wrong-leaf checks is on and the key channel of S is not loaded at
\* address 1, while in a non-existence proof that load is made; and assign
\* leaves the flag 0 and makes no load at address 1 unless the wrong row
\* has the non-existing flag.
C19_IsWrongLeaf ==
    /\ pc = "done" =>
          LET flag == cs.cells.is_wrong_leaf
              ne   == cs.cells.proof_type_wrong = "StorageDoesNotExist"
              load == \E i \in DOMAIN ops.cs["key_s"] : ops.cs["key_s"][i] = <<"load", 1>>
          IN  /\ <<"is_wrong_bool", "-">> \in cs.failed <=> flag \notin {0, 1}
              /\ Accepted => flag \in {0, 1}
              /\ <<"is_wrong_false", "-">> \in cs.active <=> ~ne
              /\ <<"is_wrong_false", "-">> \in cs.failed <=> ~ne /\ flag # 0
              /\ ~ne => WrongLeafChecks \cap cs.active = {}
              /\ load <=> ne
              /\ \A ch \in Channels \ {"key_s"} :
                    \A i \in DOMAIN ops.cs[ch] : ops.cs[ch][i] # <<"load", 1>>
    /\ pc \in {"assigned", "done"} =>
          LET ne   == rows.wrong.non_existing = 1
              load == \E i \in DOMAIN ops.wit["key_s"] : ops.wit["key_s"][i] = <<"load", 1>>
          IN  /\ region.is_wrong_leaf \in {0, 1}
              /\ ~ne => region.is_wrong_leaf = 0
              /\ load <=> ne

\* A proof that is no non-existence proof, with is_wrong_leaf set to 1 in
\* place of the 0 assign left: rejected for that alone, no wrong-leaf check
\* on.
C19_Witness ==
    /\ pc = "done"
    /\ cs.cells.proof_type_wrong # "StorageDoesNotExist"
    /\ region.is_wrong_leaf = 0
    /\ cs.cells.is_wrong_leaf = 1
    /\ cs.failed = {<<"is_wrong_false", "-">>}

\* A non-existence proof with is_wrong_leaf set to 2: rejected by the
\* boolean check.
C19_WitnessNotBoolean ==
    /\ pc = "done"
    /\ cs.cells.proof_type_wrong = "StorageDoesNotExist"
    /\ cs.cells.is_wrong_leaf = 2
    /\ <<"is_wrong_bool", "-">> \in cs.failed

====
